---- MODULE Spec2Model ----
(***************************************************************************)
(* Model of the kb-odo database scripts: schema creation                   *)
(* (init_db_with_migration.py), the version-4 migration                    *)
(* (apply_migration_v4.py), the four app-usage views and the queries run   *)
(* against them (test_fixed_queries.py, test_app_queries.py), and the      *)
(* retention cutoff (test_retention_fix.py).                               *)
(*                                                                         *)
(* A date stored in a TEXT column is the string 'YYYY-MM-DD'; it is        *)
(* modelled as the tuple <<y, m, d>> and compared field by field, which is *)
(* what the byte-wise comparison of the zero-padded string does.  A point  *)
(* in time is a proleptic Gregorian ordinal (datetime.toordinal) plus an   *)
(* hour; strftime / date() convert an ordinal into the text.               *)
(***************************************************************************)
EXTENDS Integers, Sequences, FiniteSets, TLC

VARIABLES db, clock, faults, pre, last, result

vars == <<db, clock, faults, pre, last, result>>

-----------------------------------------------------------------------------
(* Bounds of the model *)

MaxTicks == 2
MaxInitRows == 1
MaxQueryRows == 2
MaxFaults == 1
MaxRetention == 9
MaxDiagRows == 2
MaxWindowRows == 3

-----------------------------------------------------------------------------
(* Calendar arithmetic of datetime / timedelta / strftime and of SQLite's  *)
(* date() function                                                         *)

is_leap(y) == y % 4 = 0 /\ (y % 100 # 0 \/ y % 400 = 0)

days_in_month(y, m) ==
    IF m = 2 THEN (IF is_leap(y) THEN 29 ELSE 28)
    ELSE IF m \in {4, 6, 9, 11} THEN 30 ELSE 31

DAYS_BEFORE_MONTH == <<0, 31, 59, 90, 120, 151, 181, 212, 243, 273, 304, 334>>

days_before_month(y, m) ==
    DAYS_BEFORE_MONTH[m] + (IF m > 2 /\ is_leap(y) THEN 1 ELSE 0)

days_before_year(y) ==
    (y - 1) * 365 + ((y - 1) \div 4) - ((y - 1) \div 100) + ((y - 1) \div 400)

\* datetime(y, m, d).toordinal()
ymd2ord(t) == days_before_year(t[1]) + days_before_month(t[1], t[2]) + t[3]

\* the date fields of datetime.fromordinal(n)
ord2ymd(ordinal) ==
    LET n0   == ordinal - 1
        n400 == n0 \div 146097
        r400 == n0 % 146097
        n100 == r400 \div 36524
        r100 == r400 % 36524
        n4   == r100 \div 1461
        r4   == r100 % 1461
        n1   == r4 \div 365
        n    == r4 % 365
        year == n400 * 400 + 1 + n100 * 100 + n4 * 4 + n1
    IN  IF n1 = 4 \/ n100 = 4 THEN <<year - 1, 12, 31>>
        ELSE LET leapyear == n1 = 3 /\ (n4 # 24 \/ n100 = 3)
                 m0       == (n + 50) \div 32
                 p0       == DAYS_BEFORE_MONTH[m0]
                               + (IF m0 > 2 /\ leapyear THEN 1 ELSE 0)
                 month    == IF p0 > n THEN m0 - 1 ELSE m0
                 preceding == IF p0 > n
                              THEN p0 - (days_in_month(year, m0 - 1))
                              ELSE p0
             IN  <<year, month, n - preceding + 1>>

\* datetime.strftime("%Y-%m-%d"): the text of the day with ordinal n
strftime(n) == ord2ymd(n)

\* SQLite date('now', '<k> days', 'localtime') evaluated at ordinal n
sqlite_date(n, k) == ord2ymd(n + k)

\* comparison of two 'YYYY-MM-DD' texts (byte-wise, most significant first)
TextLt(a, b) ==
    \/ a[1] < b[1]
    \/ a[1] = b[1] /\ a[2] < b[2]
    \/ a[1] = b[1] /\ a[2] = b[2] /\ a[3] < b[3]

TextGe(a, b) == ~TextLt(a, b)

-----------------------------------------------------------------------------
(* The database: sqlite_master (tables, indexes, views) and the rows       *)

TableNames == {"schema_version", "daily_stats", "hourly_stats", "key_stats",
               "app_usage_stats"}

IndexNames == {"idx_app_usage_date", "idx_app_usage_app",
               "idx_app_usage_date_app"}

ViewNames == {"app_usage_daily", "app_usage_weekly", "app_usage_monthly",
              "app_usage_lifetime"}

\* a view is absent or holds the WHERE clause it was created with
NoView == "absent"

WhereToday == "date = date('now','localtime')"
WhereWeek == "date >= date('now','-7 days','localtime')"
WhereMonth == "date >= date('now','-30 days','localtime')"
WhereNone == "no WHERE clause"

EmptyDb ==
    [tables |-> {}, indexes |-> {}, views |-> [v \in ViewNames |-> NoView],
     journal_mode |-> "delete",
     schema_version |-> {}, app_usage_stats |-> {},
     daily_stats |-> {}, hourly_stats |-> {}, key_stats |-> {}]

\* what sqlite_master holds
Schema(d) == [tables |-> d.tables, indexes |-> d.indexes, views |-> d.views]

-----------------------------------------------------------------------------
(* SQL statements and their effect on a database                           *)

Stmt(k, name, arg) == [k |-> k, name |-> name, arg |-> arg]

\* statements that make the sqlite3 module open a transaction first
IsDml(s) == s.k \in {"insert_or_replace_version", "insert_or_replace", "insert_or_ignore"}

Ok(d, touched) == [ok |-> TRUE, db |-> d, touched |-> touched]

Fail(d) == [ok |-> FALSE, db |-> d, touched |-> {}]

\* rows of app_usage_stats in conflict with r on PRIMARY KEY (date, hour, app_name)
Conflicts(rows, r) ==
    {x \in rows : x.date = r.date /\ x.hour = r.hour /\ x.app_name = r.app_name}

\* a ledger of one row: the new version takes the place of whatever was there
InsertOrReplaceVersion_single_row(rows, r) == {r}

\* INSERT OR REPLACE INTO schema_version: version is the primary key
InsertOrReplaceVersion(rows, r) ==
    {x \in rows : x.version # r.version} \cup {r}

\* an INSERT that appends, as on a table without the primary key
InsertOrReplace_append(rows, r) == rows \cup {r}

\* INSERT OR REPLACE INTO app_usage_stats
InsertOrReplace(rows, r) == (rows \ Conflicts(rows, r)) \cup {r}

\* INSERT OR IGNORE INTO app_usage_stats
InsertOrIgnore(rows, r) == IF Conflicts(rows, r) # {} THEN rows ELSE rows \cup {r}

\* one statement run against database d; a statement that raises changes nothing
Exec(d, s) ==
    CASE s.k = "pragma_wal" ->
           Ok([d EXCEPT !.journal_mode = "wal"], {})
      [] s.k = "create_table_if_not_exists" ->
           IF s.name \in d.tables THEN Ok(d, {})
           ELSE Ok([d EXCEPT !.tables = @ \cup {s.name}], {s.name})
      [] s.k = "create_index_if_not_exists" ->
           IF s.arg \notin d.tables THEN Fail(d)
           ELSE IF s.name \in d.indexes THEN Ok(d, {})
           ELSE Ok([d EXCEPT !.indexes = @ \cup {s.name}], {s.name})
      [] s.k = "drop_view_if_exists" ->
           IF d.views[s.name] = NoView THEN Ok(d, {})
           ELSE Ok([d EXCEPT !.views[s.name] = NoView], {s.name})
      [] s.k = "create_view" ->
           IF d.views[s.name] # NoView THEN Fail(d)
           ELSE Ok([d EXCEPT !.views[s.name] = s.arg], {s.name})
      [] s.k = "create_view_if_not_exists" ->
           IF d.views[s.name] # NoView THEN Ok(d, {})
           ELSE Ok([d EXCEPT !.views[s.name] = s.arg], {s.name})
      [] s.k = "insert_or_replace_version" ->
           IF "schema_version" \notin d.tables THEN Fail(d)
           ELSE Ok([d EXCEPT !.schema_version = InsertOrReplaceVersion(@, s.arg)], {})
      [] s.k = "insert_or_replace" ->
           IF "app_usage_stats" \notin d.tables THEN Fail(d)
           ELSE Ok([d EXCEPT !.app_usage_stats = InsertOrReplace(@, s.arg)], {})
      [] s.k = "insert_or_ignore" ->
           IF "app_usage_stats" \notin d.tables THEN Fail(d)
           ELSE Ok([d EXCEPT !.app_usage_stats = InsertOrIgnore(@, s.arg)], {})
      [] s.k = "select" ->
           IF \/ s.name = "sqlite_master"
              \/ s.name \in d.tables
              \/ (s.name \in ViewNames /\ d.views[s.name] # NoView)
           THEN Ok(d, {}) ELSE Fail(d)
      [] s.k = "try_select" -> Ok(d, {})
      [] s.k = "pragma_query" -> Ok(d, {})
      [] s.k = "commit" -> Ok(d, {})

(* A script run on one sqlite3 connection.  DDL run outside a transaction  *)
(* is committed at once; the first INSERT opens a transaction that only    *)
(* conn.commit() ends; when a statement raises, the script dies and the    *)
(* open transaction is rolled back as the connection goes away.  A         *)
(* statement raises when SQLite rejects it, or, if mayFault, when the      *)
(* environment fails it (I/O error, lock).  The result is the set of ways  *)
(* the run from statement i on can end: whether it raised, whether the     *)
(* environment made it, the database left in the file, the objects         *)
(* created or dropped.                                                     *)
RECURSIVE Outcomes(_, _, _, _, _, _, _)
Outcomes(prog, i, committed, working, intx, touched, mayFault) ==
    IF i > Len(prog)
    THEN {[error |-> FALSE, injected |-> FALSE, db |-> committed, touched |-> touched]}
    ELSE LET s == prog[i]
             r == Exec(working, s)
             raised(env) == [error |-> TRUE, injected |-> env,
                             db |-> committed, touched |-> touched]
         IN  IF ~r.ok THEN {raised(FALSE)}
             ELSE (IF mayFault THEN {raised(TRUE)} ELSE {})
                  \cup
                  (IF s.k = "commit"
                   THEN Outcomes(prog, i + 1, r.db, r.db, FALSE,
                                 touched \cup r.touched, mayFault)
                   ELSE IF IsDml(s) \/ intx
                   THEN Outcomes(prog, i + 1, committed, r.db, TRUE, touched, mayFault)
                   ELSE Outcomes(prog, i + 1, r.db, r.db, FALSE,
                                 touched \cup r.touched, mayFault))

RunScript(prog, d, mayFault) == Outcomes(prog, 1, d, d, FALSE, {}, mayFault)

-----------------------------------------------------------------------------
(* The two scripts                                                         *)

\* a row of app_usage_stats written at clock value c
UsageRow(c, app) ==
    [date |-> strftime(c.day), hour |-> c.hour,
     app_name |-> app[1], seconds_used |-> app[2]]

\* a row of schema_version; applied_at is datetime('now') / CURRENT_TIMESTAMP
VersionRow(v, c) == [version |-> v, applied_at |-> <<c.day, c.hour>>]

CreateIndexes ==
    << Stmt("create_index_if_not_exists", "idx_app_usage_date", "app_usage_stats"),
       Stmt("create_index_if_not_exists", "idx_app_usage_app", "app_usage_stats"),
       Stmt("create_index_if_not_exists", "idx_app_usage_date_app", "app_usage_stats") >>

\* apply_migration_v4.py
sample_apps == << <<"Visual Studio Code", 1800>>, <<"Terminal", 900>>, <<"Chrome", 600>> >>

MigrationCreateViews ==
    << Stmt("create_view", "app_usage_daily", WhereToday),
       Stmt("create_view", "app_usage_weekly", WhereWeek),
       Stmt("create_view", "app_usage_monthly", WhereMonth),
       Stmt("create_view", "app_usage_lifetime", WhereNone) >>

MigrationProgram(c) ==
    << Stmt("create_table_if_not_exists", "app_usage_stats", "") >>
    \o CreateIndexes
    \o << Stmt("drop_view_if_exists", "app_usage_daily", ""),
          Stmt("drop_view_if_exists", "app_usage_weekly", ""),
          Stmt("drop_view_if_exists", "app_usage_monthly", ""),
          Stmt("drop_view_if_exists", "app_usage_lifetime", "") >>
    \o MigrationCreateViews
    \o << Stmt("insert_or_replace_version", "schema_version", VersionRow(4, c)) >>
    \o [i \in 1..Len(sample_apps) |->
          Stmt("insert_or_ignore", "app_usage_stats", UsageRow(c, sample_apps[i]))]
    \o << Stmt("commit", "", ""),
          Stmt("select", "app_usage_stats", ""),
          Stmt("select", "app_usage_daily", ""),
          Stmt("select", "schema_version", "") >>

\* SELECT MAX(version): one result column, <<>> for NULL (no rows), <<v>> else
NULL == <<>>

RECURSIVE SqlMax(_)
SqlMax(S) ==
    IF S = {} THEN NULL
    ELSE LET x == CHOOSE v \in S : TRUE
             m == SqlMax(S \ {x})
         IN  IF m = NULL THEN <<x>> ELSE IF x > m[1] THEN <<x>> ELSE m

\* SELECT version with no MAX: the first row, the one with the lowest rowid
RECURSIVE SqlFirst(_)
SqlFirst(S) ==
    IF S = {} THEN NULL
    ELSE LET x == CHOOSE v \in S : TRUE
             m == SqlFirst(S \ {x})
         IN  IF m = NULL THEN <<x>> ELSE IF x < m[1] THEN <<x>> ELSE m

currentVersion_first_row(d) ==
    IF "schema_version" \notin d.tables THEN 0
    ELSE LET m == SqlFirst({r.version : r \in d.schema_version})
         IN  IF m = NULL THEN 0 ELSE IF m[1] = 0 THEN 0 ELSE m[1]

\* the try/except around the read: fetchone()[0] or 0, and 0 when it raises
currentVersion(d) ==
    IF "schema_version" \notin d.tables THEN 0
    ELSE LET m == SqlMax({r.version : r \in d.schema_version})
         IN  IF m = NULL THEN 0 ELSE IF m[1] = 0 THEN 0 ELSE m[1]

\* the early return taken only above version 4
AlreadyMigrated_above(current_version) == current_version > 4

\* the early return
AlreadyMigrated(current_version) == current_version >= 4

\* init_db_with_migration.py
test_apps == << <<"Visual Studio Code", 3600>>, <<"Chrome", 2400>>, <<"Terminal", 1800>>,
                <<"Slack", 900>>, <<"Notepad", 600>> >>

\* the views created without IF NOT EXISTS
InitCreateViews_plain ==
    << Stmt("create_view", "app_usage_daily", WhereToday),
       Stmt("create_view", "app_usage_weekly", WhereWeek),
       Stmt("create_view", "app_usage_monthly", WhereMonth),
       Stmt("create_view", "app_usage_lifetime", WhereNone) >>

InitCreateViews ==
    << Stmt("create_view_if_not_exists", "app_usage_daily", WhereToday),
       Stmt("create_view_if_not_exists", "app_usage_weekly", WhereWeek),
       Stmt("create_view_if_not_exists", "app_usage_monthly", WhereMonth),
       Stmt("create_view_if_not_exists", "app_usage_lifetime", WhereNone) >>

InitProgram(c) ==
    << Stmt("pragma_wal", "", ""),
       Stmt("create_table_if_not_exists", "schema_version", ""),
       Stmt("create_table_if_not_exists", "daily_stats", ""),
       Stmt("create_table_if_not_exists", "hourly_stats", ""),
       Stmt("create_table_if_not_exists", "key_stats", ""),
       Stmt("create_table_if_not_exists", "app_usage_stats", "") >>
    \o CreateIndexes
    \o InitCreateViews
    \o << Stmt("insert_or_replace_version", "schema_version", VersionRow(4, c)) >>
    \o [i \in 1..Len(test_apps) |->
          Stmt("insert_or_replace", "app_usage_stats", UsageRow(c, test_apps[i]))]
    \o << Stmt("commit", "", ""),
          Stmt("select", "app_usage_stats", ""),
          Stmt("select", "app_usage_daily", "") >>

-----------------------------------------------------------------------------
(* The views and the queries on them                                       *)

\* the Today view without its filter
WhereHolds_today_unfiltered(where, date, n) ==
    CASE where = WhereToday -> TRUE
      [] where = WhereWeek  -> TextGe(date, sqlite_date(n, -7))
      [] where = WhereMonth -> TextGe(date, sqlite_date(n, -30))
      [] where = WhereNone  -> TRUE

\* the Weekly view reaching back further than the Monthly view
WhereHolds_wide_week(where, date, n) ==
    CASE where = WhereToday -> date = sqlite_date(n, 0)
      [] where = WhereWeek  -> TextGe(date, sqlite_date(n, -31))
      [] where = WhereMonth -> TextGe(date, sqlite_date(n, -30))
      [] where = WhereNone  -> TRUE

\* the WHERE clause of a view, for a row dated date, evaluated on day n
WhereHolds(where, date, n) ==
    CASE where = WhereToday -> date = sqlite_date(n, 0)
      [] where = WhereWeek  -> TextGe(date, sqlite_date(n, -7))
      [] where = WhereMonth -> TextGe(date, sqlite_date(n, -30))
      [] where = WhereNone  -> TRUE

\* SUM(seconds_used) over a group of rows
RECURSIVE SqlSum(_)
SqlSum(S) ==
    IF S = {} THEN 0
    ELSE LET r == CHOOSE x \in S : TRUE
         IN  r.seconds_used + SqlSum(S \ {r})

\* SELECT app_name, SUM(seconds_used) as total_seconds ... GROUP BY app_name
ViewRows(where, rows, n) ==
    LET sel == {r \in rows : WhereHolds(where, r.date, n)}
    IN  { [app_name |-> a,
           total_seconds |-> SqlSum({r \in sel : r.app_name = a})]
          : a \in {r.app_name : r \in sel} }

\* ORDER BY total_seconds DESC: every sequence of the rows with totals
\* descending; SQL leaves the order of rows with equal totals open
RECURSIVE OrderByTotalDesc(_)
OrderByTotalDesc(S) ==
    IF S = {} THEN {<<>>}
    ELSE UNION { {<<x>> \o t : t \in OrderByTotalDesc(S \ {x})}
                 : x \in {y \in S : \A z \in S : z.total_seconds <= y.total_seconds} }

NoResult == [view |-> "none", error |-> FALSE, rows |-> <<>>]

\* SELECT app_name, total_seconds FROM <view> ORDER BY total_seconds DESC
QueryResults(d, view, n) ==
    IF d.views[view] = NoView \/ "app_usage_stats" \notin d.tables
    THEN {[view |-> view, error |-> TRUE, rows |-> <<>>]}
    ELSE {[view |-> view, error |-> FALSE, rows |-> s]
          : s \in OrderByTotalDesc(ViewRows(d.views[view], d.app_usage_stats, n))}

-----------------------------------------------------------------------------
(* The state machine                                                       *)

StartDate == <<2025, 8, 7>>

StartClock == [day |-> ymd2ord(StartDate), hour |-> 22, ticks |-> 0]

\* rows a database may hold before the scripts run, dated around the start day
PoolRow(offset, app, seconds) ==
    [date |-> strftime(StartClock.day + offset), hour |-> 8,
     app_name |-> app, seconds_used |-> seconds]

PoolRows ==
    { PoolRow(-8, "Chrome", 600), PoolRow(-7, "Chrome", 600),
      PoolRow(0, "Chrome", 600), PoolRow(0, "Terminal", 600),
      PoolRow(1, "Terminal", 900) }

\* version ledgers a database may hold before the scripts run
PoolVersions == {3, 5}

OldClock == [day |-> StartClock.day - 40, hour |-> 12]

BaseTables == {"daily_stats", "hourly_stats", "key_stats"}

CurrentViews ==
    [v \in ViewNames |->
        CASE v = "app_usage_daily" -> WhereToday
          [] v = "app_usage_weekly" -> WhereWeek
          [] v = "app_usage_monthly" -> WhereMonth
          [] v = "app_usage_lifetime" -> WhereNone]

\* an older definition of the Today view, without its WHERE clause
LegacyViews == [CurrentViews EXCEPT !["app_usage_daily"] = WhereNone]

\* the ledger is missing, or holds any of the pool's versions
InitialLedgers ==
    {[present |-> FALSE, versions |-> {}]}
    \cup {[present |-> TRUE, versions |-> x] : x \in SUBSET PoolVersions}

\* the ledgers of databases that already hold app_usage_stats
AppLedgers ==
    {[present |-> FALSE, versions |-> {}],
     [present |-> TRUE, versions |-> {3}],
     [present |-> TRUE, versions |-> {5}]}

LedgerTable(l) == IF l.present THEN {"schema_version"} ELSE {}

\* databases without app_usage_stats: an empty file, or the older schema
OldDbs ==
    {EmptyDb}
    \cup
    { [EmptyDb EXCEPT !.tables = BaseTables \cup LedgerTable(l),
                      !.schema_version = {VersionRow(v, OldClock) : v \in l.versions}]
      : l \in InitialLedgers }

\* databases that hold app_usage_stats, with at most maxRows rows of the pool
AppDbs(ledgers, viewSets, maxRows) ==
    { [EmptyDb EXCEPT !.tables = BaseTables \cup {"app_usage_stats"} \cup LedgerTable(l),
                      !.indexes = IndexNames,
                      !.views = views,
                      !.schema_version = {VersionRow(v, OldClock) : v \in l.versions},
                      !.app_usage_stats = rows]
      : l \in ledgers,
        views \in viewSets,
        rows \in {x \in SUBSET PoolRows : Cardinality(x) <= maxRows} }

\* what is known of the latest script run
NoOp == [op |-> "none", error |-> FALSE, injected |-> FALSE, current_version |-> 0,
         applied |-> FALSE, touched |-> {}, repeat |-> FALSE,
         retention_days |-> 0, as_of |-> 0, cutoff |-> <<>>,
         future_dates |-> {}, reported |-> {}]

Init ==
    /\ db \in OldDbs \cup AppDbs(AppLedgers, {LegacyViews}, MaxInitRows)
    /\ clock = StartClock
    /\ faults = 0
    /\ pre = db
    /\ last = NoOp
    /\ result = NoResult

\* the environment may still fail a statement
MayFault == faults < MaxFaults

\* the previous script run was the same script and it raised nothing
Repeat(op) == last.op = op /\ ~last.error

\* init_database(db_path)
InitDatabase ==
    \E r \in RunScript(InitProgram(clock), db, MayFault) :
        /\ db' = r.db
        /\ pre' = db
        /\ last' = [NoOp EXCEPT !.op = "init_database", !.error = r.error,
                                !.injected = r.injected, !.applied = TRUE,
                                !.touched = r.touched,
                                !.repeat = Repeat("init_database")]
        /\ faults' = IF r.injected THEN faults + 1 ELSE faults
        /\ result' = NoResult
        /\ UNCHANGED clock

\* apply_migration_v4(db_path)
ApplyMigrationV4 ==
    LET current_version == currentVersion(db)
    IN  IF AlreadyMigrated(current_version)
        THEN /\ last' = [NoOp EXCEPT !.op = "apply_migration_v4",
                                     !.current_version = current_version,
                                     !.repeat = Repeat("apply_migration_v4")]
             /\ pre' = db
             /\ result' = NoResult
             /\ UNCHANGED <<db, clock, faults>>
        ELSE \E r \in RunScript(MigrationProgram(clock), db, MayFault) :
                /\ db' = r.db
                /\ pre' = db
                /\ last' = [NoOp EXCEPT !.op = "apply_migration_v4",
                                        !.error = r.error,
                                        !.injected = r.injected,
                                        !.current_version = current_version,
                                        !.applied = TRUE,
                                        !.touched = r.touched,
                                        !.repeat = Repeat("apply_migration_v4")]
                /\ faults' = IF r.injected THEN faults + 1 ELSE faults
                /\ result' = NoResult
                /\ UNCHANGED clock

\* the wall clock moves on by one hour
Tick ==
    /\ clock.ticks < MaxTicks
    /\ clock' = [day |-> IF clock.hour = 23 THEN clock.day + 1 ELSE clock.day,
                 hour |-> (clock.hour + 1) % 24,
                 ticks |-> clock.ticks + 1]
    /\ result' = NoResult
    /\ UNCHANGED <<db, faults, pre, last>>

\* one of the four queries of test_fixed_queries.py
Query ==
    \E view \in ViewNames :
        /\ result' \in QueryResults(db, view, clock.day)
        /\ UNCHANGED <<db, clock, faults, pre, last>>

Next == InitDatabase \/ ApplyMigrationV4 \/ Tick

Spec == Init /\ [][Next]_vars

\* the queries on fuller tables, with an environment that injects no fault
InitQuery ==
    /\ db \in AppDbs({[present |-> TRUE, versions |-> {3}]},
                    {CurrentViews, LegacyViews, EmptyDb.views}, MaxQueryRows)
    /\ clock = StartClock
    /\ faults = MaxFaults
    /\ pre = db
    /\ last = NoOp
    /\ result = NoResult

NextQuery == InitDatabase \/ ApplyMigrationV4 \/ Tick \/ Query

SpecQuery == InitQuery /\ [][NextQuery]_vars

\* rows on both sides of every window boundary: today, a week, a month
WindowPool ==
    { PoolRow(-31, "Chrome", 600), PoolRow(-30, "Chrome", 600),
      PoolRow(-8, "Chrome", 600), PoolRow(-7, "Chrome", 600),
      PoolRow(1, "Chrome", 900) }

\* the four views as the scripts create them, over rows spread across the windows
InitWindows ==
    /\ db \in { [EmptyDb EXCEPT !.tables = TableNames,
                                !.indexes = IndexNames,
                                !.views = CurrentViews,
                                !.schema_version = {VersionRow(3, OldClock)},
                                !.app_usage_stats = rows]
                : rows \in {x \in SUBSET WindowPool : Cardinality(x) <= MaxWindowRows} }
    /\ clock = StartClock
    /\ faults = MaxFaults
    /\ pre = db
    /\ last = NoOp
    /\ result = NoResult

SpecWindows == InitWindows /\ [][Next]_vars

-----------------------------------------------------------------------------
(* Retention                                                               *)

\* the value None
None == <<>>

\* the cleanup skipped only for negative settings
cutoff_calculation_zero_purges(today, retention_days) ==
    IF retention_days < 0 THEN None
    ELSE <<today - retention_days>>

\* the cutoff one day late
cutoff_calculation_off_by_one(today, retention_days) ==
    IF retention_days <= 0 THEN None
    ELSE <<today - retention_days + 1>>

\* test_cutoff_calculation, its fixed date made a parameter: None when the
\* cleanup is skipped, else <<ordinal of today - timedelta(days)>>
cutoff_calculation(today, retention_days) ==
    IF retention_days <= 0 THEN None
    ELSE <<today - retention_days>>

\* the date the test fixes, "from the debug logs"
test_today == ymd2ord(<<2025, 8, 9>>)

\* DELETE FROM <table> WHERE date < cutoff, the cutoff bound as 'YYYY-MM-DD'
DeleteBefore(rows, cutoff_text) == {r \in rows : ~TextLt(r.date, cutoff_text)}

\* purgeOlderThan(retentionDays, asOf): one transaction over the four tables
purgeOlderThan(d, retention_days, asOf) ==
    LET cutoff == cutoff_calculation(asOf, retention_days)
    IN  IF cutoff = None THEN d
        ELSE LET text == strftime(cutoff[1])
             IN  [d EXCEPT !.daily_stats = DeleteBefore(@, text),
                           !.hourly_stats = DeleteBefore(@, text),
                           !.key_stats = DeleteBefore(@, text),
                           !.app_usage_stats = DeleteBefore(@, text)]

\* the retention settings tried: every value within the bound and the test's 30 and 90
RetentionInputs == (-MaxRetention..MaxRetention) \cup {30, 90}

\* days the purge may run on: the test's day, one after a leap day, one after new year
AsOfDays == {test_today, ymd2ord(<<2024, 3, 2>>), ymd2ord(<<2025, 1, 3>>)}

\* the days that have data: tomorrow, today and the days on both sides of every cutoff
DataDays(asOf) ==
    {asOf + 1} \cup {asOf - k : k \in 0..(MaxRetention + 1)}
    \cup {asOf - k : k \in {29, 30, 31, 89, 90, 91}}

RetentionDb(asOf) ==
    [EmptyDb EXCEPT
       !.tables = TableNames,
       !.schema_version = {VersionRow(4, OldClock)},
       !.daily_stats = {[date |-> strftime(n)] : n \in DataDays(asOf)},
       !.hourly_stats = {[date |-> strftime(n), hour |-> 8] : n \in DataDays(asOf)},
       !.key_stats = {[date |-> strftime(n), hour |-> 8, key_code |-> "A"]
                      : n \in DataDays(asOf)},
       !.app_usage_stats = {[date |-> strftime(n), hour |-> 8, app_name |-> "Chrome",
                             seconds_used |-> 600] : n \in DataDays(asOf)}]

InitRetention ==
    /\ \E t \in AsOfDays :
          /\ clock = [day |-> t, hour |-> 22, ticks |-> 0]
          /\ db = RetentionDb(t)
    /\ faults = 0
    /\ pre = db
    /\ last = NoOp
    /\ result = NoResult

\* the retention manager runs with the configured retention on the current day
Purge ==
    \E retention_days \in RetentionInputs :
        /\ db' = purgeOlderThan(db, retention_days, clock.day)
        /\ pre' = db
        /\ last' = [NoOp EXCEPT !.op = "purge", !.retention_days = retention_days,
                                !.as_of = clock.day,
                                !.cutoff = cutoff_calculation(clock.day, retention_days)]
        /\ UNCHANGED <<clock, faults, result>>

NextRetention == Purge \/ Tick

SpecRetention == InitRetention /\ [][NextRetention]_vars

-----------------------------------------------------------------------------
(* Diagnostics                                                             *)

\* the analysis creating the tables it is about to read
AnalyzeProgram_creating(c) ==
    << Stmt("create_table_if_not_exists", "daily_stats", ""),
       Stmt("create_table_if_not_exists", "hourly_stats", ""),
       Stmt("select", "daily_stats", strftime(c.day)) >>

\* analyze_db.py: the statements of analyze_database; a statement inside
\* try/except is a try_select, whose failure the except clause swallows
AnalyzeProgram(c) ==
    << Stmt("select", "sqlite_master", ""),
       Stmt("try_select", "schema_version", ""),
       Stmt("select", "daily_stats", ""),
       Stmt("select", "hourly_stats", ""),
       Stmt("select", "daily_stats", "duplicates"),
       Stmt("select", "daily_stats", strftime(c.day)),
       Stmt("select", "daily_stats", "range"),
       Stmt("try_select", "key_stats", ""),
       Stmt("try_select", "key_stats", ""),
       Stmt("pragma_query", "journal_mode", ""),
       Stmt("pragma_query", "wal_checkpoint", ""),
       Stmt("pragma_query", "integrity_check", "") >>

\* the future-date check flagging today as well
future_dates_inclusive(d, today) ==
    {r.date : r \in {x \in d.daily_stats : ~TextLt(x.date, today)}}

\* SELECT date FROM daily_stats WHERE date > ?, (today,)
future_dates(d, today) ==
    {r.date : r \in {x \in d.daily_stats : TextLt(today, x.date)}}

\* the messages of the two except clauses, given whether the run reached the second
AnalyzeFindings(d, completed) ==
    (IF "schema_version" \notin d.tables
     THEN {"Schema version table not found or empty"} ELSE {})
    \cup
    (IF completed /\ "key_stats" \notin d.tables
     THEN {"key_stats table not found or error reading it"} ELSE {})

\* analyze_debug_db.py
AnalyzeDebugProgram ==
    << Stmt("select", "sqlite_master", ""),
       Stmt("try_select", "schema_version", ""),
       Stmt("select", "daily_stats", ""),
       Stmt("select", "hourly_stats", ""),
       Stmt("select", "key_stats", ""),
       Stmt("select", "sqlite_master", "") >>

RECURSIVE SetToSeq(_)
SetToSeq(S) ==
    IF S = {} THEN <<>>
    ELSE LET x == CHOOSE y \in S : TRUE IN <<x>> \o SetToSeq(S \ {x})

\* check_uploaded_db.py: the tables and views it finds decide what it reads
CheckUploadedProgram(d) ==
    << Stmt("select", "sqlite_master", ""),
       Stmt("try_select", "schema_version", ""),
       Stmt("select", "sqlite_master", "") >>
    \o (IF "app_usage_stats" \in d.tables
        THEN << Stmt("select", "app_usage_stats", "count"),
                Stmt("select", "app_usage_stats", "sample") >>
        ELSE <<>>)
    \o [i \in 1..Cardinality(ViewNames) |-> Stmt("select", "sqlite_master", "")]
    \o SetToSeq({Stmt("select", v, "") : v \in {w \in ViewNames : d.views[w] # NoView}})

\* the days the daily rows of a database under analysis may bear
DiagDays == {StartClock.day + k : k \in -1..2}

DiagTables ==
    { {}, BaseTables, BaseTables \cup {"schema_version"},
      {"schema_version", "daily_stats", "hourly_stats"},
      {"schema_version", "daily_stats", "key_stats"},
      {"schema_version", "hourly_stats", "key_stats"} }

\* databases handed to the diagnostics: tables missing or empty, daily rows around today
DiagDbs ==
    { [EmptyDb EXCEPT
         !.tables = t,
         !.schema_version = IF "schema_version" \in t THEN {VersionRow(v, OldClock) : v \in vs}
                            ELSE {},
         !.daily_stats = IF "daily_stats" \in t THEN {[date |-> strftime(n)] : n \in days}
                         ELSE {},
         !.hourly_stats = IF "hourly_stats" \in t
                          THEN {[date |-> strftime(n), hour |-> 8] : n \in days}
                          ELSE {}]
      : t \in DiagTables, vs \in {{}, {3}},
        days \in {x \in SUBSET DiagDays : Cardinality(x) <= MaxDiagRows} }

InitDiag ==
    /\ db \in DiagDbs
    /\ clock = StartClock
    /\ faults = MaxFaults
    /\ pre = db
    /\ last = NoOp
    /\ result = NoResult

\* analyze_database(db_path) of analyze_db.py
AnalyzeDatabase ==
    \E r \in RunScript(AnalyzeProgram(clock), db, FALSE) :
        /\ db' = r.db
        /\ pre' = db
        /\ last' = [NoOp EXCEPT !.op = "analyze_database", !.error = r.error,
                                !.touched = r.touched, !.as_of = clock.day,
                                !.future_dates =
                                    IF r.error THEN {}
                                    ELSE future_dates(db, strftime(clock.day)),
                                !.reported = AnalyzeFindings(db, ~r.error)]
        /\ UNCHANGED <<clock, faults, result>>

\* analyze_database(db_path) of analyze_debug_db.py
AnalyzeDebugDatabase ==
    \E r \in RunScript(AnalyzeDebugProgram, db, FALSE) :
        /\ db' = r.db
        /\ pre' = db
        /\ last' = [NoOp EXCEPT !.op = "analyze_debug_db", !.error = r.error,
                                !.touched = r.touched, !.as_of = clock.day]
        /\ UNCHANGED <<clock, faults, result>>

\* the script check_uploaded_db.py
CheckUploadedDb ==
    \E r \in RunScript(CheckUploadedProgram(db), db, FALSE) :
        /\ db' = r.db
        /\ pre' = db
        /\ last' = [NoOp EXCEPT !.op = "check_uploaded_db", !.error = r.error,
                                !.touched = r.touched, !.as_of = clock.day]
        /\ UNCHANGED <<clock, faults, result>>

NextDiag ==
    \/ AnalyzeDatabase
    \/ AnalyzeDebugDatabase
    \/ CheckUploadedDb
    \/ InitDatabase
    \/ ApplyMigrationV4
    \/ Tick

SpecDiag == InitDiag /\ [][NextDiag]_vars

-----------------------------------------------------------------------------
(* Calendar days, counted on the calendar itself                           *)

\* the last day of the month before the month of t
EndOfPrevMonth(t) ==
    IF t[2] > 1 THEN <<t[1], t[2] - 1, days_in_month(t[1], t[2] - 1)>>
    ELSE <<t[1] - 1, 12, 31>>

\* the day k days before day t, walking back month by month
RECURSIVE MinusDays(_, _)
MinusDays(t, k) ==
    IF k <= 0 THEN t
    ELSE IF k < t[3] THEN <<t[1], t[2], t[3] - k>>
    ELSE MinusDays(EndOfPrevMonth(t), k - t[3])

\* day a lies strictly before day b
DayBefore(a, b) == ymd2ord(a) < ymd2ord(b)

RowTables == {"daily_stats", "hourly_stats", "key_stats", "app_usage_stats"}

Rows(d, t) ==
    CASE t = "daily_stats" -> d.daily_stats
      [] t = "hourly_stats" -> d.hourly_stats
      [] t = "key_stats" -> d.key_stats
      [] t = "app_usage_stats" -> d.app_usage_stats

-----------------------------------------------------------------------------
(* C1: a purge with retentionDays <= 0 computes no cutoff and deletes no   *)
(* row of daily, hourly, key or app-usage data, whatever the day it runs on *)
C1_KeepForever ==
    (last.op = "purge" /\ last.retention_days <= 0)
        => /\ last.cutoff = None
           /\ \A t \in RowTables : Rows(db, t) = Rows(pre, t)

\* a purge with retention 0 has run and the rows dated that day are still there
C1_Witness ==
    /\ last.op = "purge"
    /\ last.retention_days = 0
    /\ \A t \in RowTables : \E r \in Rows(db, t) : r.date = strftime(last.as_of)

(* C2: a purge with retentionDays > 0 uses the cutoff asOf minus           *)
(* retentionDays calendar days and deletes exactly the rows dated strictly *)
(* before it; retention 7 on 2025-08-09 gives 2025-08-02, which is kept    *)
C2_CutoffStrict ==
    (last.op = "purge" /\ last.retention_days > 0)
        => /\ last.cutoff # None
           /\ strftime(last.cutoff[1])
                = MinusDays(strftime(last.as_of), last.retention_days)
           /\ \A t \in RowTables :
                Rows(db, t) = {r \in Rows(pre, t) :
                                 ~DayBefore(r.date, MinusDays(strftime(last.as_of),
                                                              last.retention_days))}
           /\ (last.as_of = test_today /\ last.retention_days = 7)
                => /\ strftime(last.cutoff[1]) = <<2025, 8, 2>>
                   /\ \A r \in pre.daily_stats :
                        (r \in db.daily_stats) <=> ~DayBefore(r.date, <<2025, 8, 2>>)

\* retention 7 on 2025-08-09 has deleted the row of 2025-08-01 and kept that of 2025-08-02
C2_Witness ==
    /\ last.op = "purge"
    /\ last.retention_days = 7
    /\ last.as_of = test_today
    /\ [date |-> <<2025, 8, 1>>] \in pre.daily_stats
    /\ [date |-> <<2025, 8, 1>>] \notin db.daily_stats
    /\ [date |-> <<2025, 8, 2>>] \in db.daily_stats

-----------------------------------------------------------------------------
(* The version ledger, read off the rows                                   *)

Versions(d) == {r.version : r \in d.schema_version}

\* the highest version applied, 0 when none is
HighestVersion(d) ==
    IF Versions(d) = {} THEN 0
    ELSE CHOOSE v \in Versions(d) : \A w \in Versions(d) : w <= v

RowsOfVersion(d, v) == {r \in d.schema_version : r.version = v}

Scripts == {"init_database", "apply_migration_v4"}

(* C3: a run of apply_migration_v4 in which a statement fails leaves the   *)
(* database exactly as it was before the run: nothing created or dropped,  *)
(* no sample row, no version-4 row                                         *)
C3_MigrationAtomic ==
    (last.op = "apply_migration_v4" /\ last.error) => db = pre

(* C4: apply_migration_v4 on a database whose current version is >= 4      *)
(* changes nothing; a run right after a run that applied finds version 4,  *)
(* leaves one row for version 4, the same number of app_usage_stats rows,  *)
(* and drops or creates no view                                            *)
C4_MigrationNoOp ==
    /\ (last.op = "apply_migration_v4" /\ last.current_version >= 4)
          => /\ db = pre
             /\ last.touched = {}
             /\ ~last.applied /\ ~last.error
    /\ (last.op = "apply_migration_v4" /\ last.applied /\ ~last.error)
          => Cardinality(RowsOfVersion(db, 4)) = 1
    /\ (last.op = "apply_migration_v4" /\ last.repeat)
          => /\ last.current_version >= 4
             /\ RowsOfVersion(db, 4) = RowsOfVersion(pre, 4)
             /\ Cardinality(db.app_usage_stats) = Cardinality(pre.app_usage_stats)
             /\ last.touched \cap ViewNames = {}

\* the migration has run right after a run that applied it
C4_Witness ==
    /\ last.op = "apply_migration_v4"
    /\ last.repeat
    /\ last.current_version = 4
    /\ Cardinality(RowsOfVersion(db, 4)) = 1
    /\ \E r \in db.app_usage_stats :
          r.app_name = "Visual Studio Code" /\ r.seconds_used = 1800
    /\ \A v \in ViewNames : db.views[v] = CurrentViews[v]

(* C5: init_database called right after a call of init_database raises no  *)
(* error and leaves the tables, indexes and views, and their definitions,  *)
(* as the first call left them                                             *)
C5_InitIdempotent ==
    (last.op = "init_database" /\ last.repeat /\ ~last.injected)
        => /\ ~last.error
           /\ Schema(db) = Schema(pre)
           /\ last.touched = {}

\* init_database has run twice in a row on a database that had an older Today view
C5_Witness ==
    /\ last.op = "init_database"
    /\ last.repeat
    /\ ~last.error
    /\ db.tables = TableNames
    /\ db.indexes = IndexNames
    /\ db.views = LegacyViews

(* C6: no run of init_database or apply_migration_v4 lowers the highest    *)
(* version in schema_version, whatever the ledger held before              *)
C6_VersionForward ==
    (last.op \in Scripts) => HighestVersion(db) >= HighestVersion(pre)

\* init_database has run on a ledger that held version 5
C6_Witness ==
    /\ last.op = "init_database"
    /\ ~last.error
    /\ HighestVersion(pre) = 5
    /\ Versions(db) = Versions(pre) \cup {4}

(* C7: the version the migration reads is the highest version in           *)
(* schema_version, and 0 when the table is empty or does not exist         *)
C7_CurrentVersion ==
    (last.op = "apply_migration_v4")
        => /\ (Versions(pre) # {})
                => /\ last.current_version \in Versions(pre)
                   /\ \A w \in Versions(pre) : w <= last.current_version
           /\ ("schema_version" \in pre.tables /\ pre.schema_version = {})
                => last.current_version = 0
           /\ ("schema_version" \notin pre.tables)
                => last.current_version = 0

\* the migration has read a ledger of two versions
C7_Witness ==
    /\ last.op = "apply_migration_v4"
    /\ Versions(pre) = {3, 5}
    /\ last.current_version = 5

-----------------------------------------------------------------------------
(* Usage totals, counted hour by hour off the rows                         *)

\* seconds of app in hour h of the day dated date
HourSeconds(rows, date, h, app) ==
    LET S == {r \in rows : r.date = date /\ r.hour = h /\ r.app_name = app}
    IN  IF S = {} THEN 0 ELSE (CHOOSE r \in S : TRUE).seconds_used

RECURSIVE DaySecondsUpTo(_, _, _, _)
DaySecondsUpTo(rows, date, h, app) ==
    IF h < 0 THEN 0
    ELSE HourSeconds(rows, date, h, app) + DaySecondsUpTo(rows, date, h - 1, app)

\* seconds of app over the 24 hours of the day dated date
DaySeconds(rows, date, app) == DaySecondsUpTo(rows, date, 23, app)

\* the entries of a query result, as a set
Entries(res) == {res.rows[i] : i \in 1..Len(res.rows)}

\* a query on view v has returned rows, and v has the definition the scripts give it
Answered(v) ==
    /\ result.view = v
    /\ ~result.error
    /\ db.views[v] = CurrentViews[v]

LocalToday == strftime(clock.day)

(* C8: the Today query returns, for every app with a row dated local       *)
(* today, exactly one entry, whose total is the sum of seconds_used over   *)
(* that app's rows of today in all hours; apps with no row of today have   *)
(* no entry, and rows of other days add nothing                            *)
C8_TodayView ==
    Answered("app_usage_daily")
        => /\ \A r \in db.app_usage_stats :
                r.date = LocalToday
                  => /\ Cardinality({i \in 1..Len(result.rows) :
                                       result.rows[i].app_name = r.app_name}) = 1
                     /\ \E e \in Entries(result) :
                           /\ e.app_name = r.app_name
                           /\ e.total_seconds
                                = DaySeconds(db.app_usage_stats, LocalToday, r.app_name)
           /\ \A e \in Entries(result) :
                \E r \in db.app_usage_stats :
                    r.date = LocalToday /\ r.app_name = e.app_name

\* the Today query has summed an app's rows of two hours while rows of other days exist
C8_Witness ==
    /\ Answered("app_usage_daily")
    /\ \E r1, r2 \in db.app_usage_stats :
          /\ r1.date = LocalToday /\ r2.date = LocalToday
          /\ r1.app_name = r2.app_name /\ r1.hour # r2.hour
          /\ \E e \in Entries(result) :
                /\ e.app_name = r1.app_name
                /\ e.total_seconds = r1.seconds_used + r2.seconds_used
    /\ \E r \in db.app_usage_stats : r.date # LocalToday

\* the rows dated from local today - 7 days to local today
InLastWeek(r) ==
    /\ ymd2ord(r.date) >= clock.day - 7
    /\ ymd2ord(r.date) <= clock.day

RECURSIVE SecondsOf(_)
SecondsOf(S) ==
    IF S = {} THEN 0
    ELSE LET r == CHOOSE x \in S : TRUE IN r.seconds_used + SecondsOf(S \ {r})

(* C9: the Weekly query sums exactly the rows dated d with                 *)
(* local today - 7 days <= d <= local today: today-7 is in, today-8 and    *)
(* the days after today are out                                            *)
C9_WeeklyWindow ==
    Answered("app_usage_weekly")
        => Entries(result) =
             { [app_name |-> a,
                total_seconds |->
                   SecondsOf({r \in db.app_usage_stats : InLastWeek(r) /\ r.app_name = a})]
               : a \in {r.app_name : r \in {x \in db.app_usage_stats : InLastWeek(x)}} }

\* app names in ascending order
AppOrder == <<"Chrome", "Notepad", "Slack", "Terminal", "Visual Studio Code">>

AppRank(a) == CHOOSE i \in 1..Len(AppOrder) : AppOrder[i] = a

(* C10: every window query returns its entries by descending total         *)
(* seconds, and entries with equal totals by ascending app_name            *)
C10_DeterministicOrder ==
    (result.view \in ViewNames /\ ~result.error)
        => \A i, j \in 1..Len(result.rows) :
              i < j =>
                \/ result.rows[i].total_seconds > result.rows[j].total_seconds
                \/ /\ result.rows[i].total_seconds = result.rows[j].total_seconds
                   /\ AppRank(result.rows[i].app_name) < AppRank(result.rows[j].app_name)

-----------------------------------------------------------------------------
(* The windows, counted on the calendar                                    *)

\* row r lies in the window the scripts give view v, seen from local today
InWindow(v, r) ==
    CASE v = "app_usage_daily" -> ymd2ord(r.date) = clock.day
      [] v = "app_usage_weekly" -> ymd2ord(r.date) >= clock.day - 7
      [] v = "app_usage_monthly" -> ymd2ord(r.date) >= clock.day - 30
      [] v = "app_usage_lifetime" -> TRUE

\* the grouped sum of view v recomputed from the rows of app_usage_stats
Recomputed(d, v) ==
    LET sel == {r \in d.app_usage_stats : InWindow(v, r)}
    IN  { [app_name |-> a,
           total_seconds |-> SecondsOf({r \in sel : r.app_name = a})]
          : a \in {r.app_name : r \in sel} }

(* C11: once init_database or apply_migration_v4 has run to completion,    *)
(* whatever runs came before and whatever definition a view had when the   *)
(* script found it, a query on a usage view returns the grouped sum of its *)
(* window recomputed from the current rows of app_usage_stats and the      *)
(* current local date                                                      *)
C11_ViewsRecomputable ==
    (last.op \in Scripts /\ ~last.error /\ result.view \in ViewNames /\ ~result.error)
        => Entries(result) = Recomputed(db, result.view)

\* rows of app_usage_stats with the same (date, hour, app_name) as r
SameTriple(rows, r) ==
    {x \in rows : x.date = r.date /\ x.hour = r.hour /\ x.app_name = r.app_name}

(* C12: in every database state reached by runs of init_database and       *)
(* apply_migration_v4 at any clock values, app_usage_stats holds at most   *)
(* one row per (date, hour, app_name)                                      *)
C12_PrimaryKeyUnique ==
    \A r \in db.app_usage_stats : SameTriple(db.app_usage_stats, r) = {r}

\* init_database has written a row whose triple was already there with other seconds
C12_Witness ==
    /\ last.op = "init_database"
    /\ ~last.error
    /\ \E r \in db.app_usage_stats :
          /\ r.hour = clock.hour /\ r.date = LocalToday
          /\ \E x \in SameTriple(pre.app_usage_stats, r) : x.seconds_used # r.seconds_used
          /\ SameTriple(db.app_usage_stats, r) = {r}

-----------------------------------------------------------------------------
Diagnostics == {"analyze_database", "analyze_debug_db", "check_uploaded_db"}

(* C13: the future-date check of analyze_database flags a daily_stats row  *)
(* exactly when its date is strictly after the day the analysis runs on:   *)
(* a row dated the next day is flagged, a row dated that very day is not   *)
C13_FutureDates ==
    (last.op = "analyze_database" /\ ~last.error)
        => /\ last.future_dates
                = {r.date : r \in {x \in db.daily_stats : ymd2ord(x.date) > last.as_of}}
           /\ \A r \in db.daily_stats :
                /\ ymd2ord(r.date) = last.as_of + 1 => r.date \in last.future_dates
                /\ ymd2ord(r.date) = last.as_of => r.date \notin last.future_dates

\* the analysis has run on rows dated its day and the day after, and flagged the second only
C13_Witness ==
    /\ last.op = "analyze_database"
    /\ ~last.error
    /\ [date |-> strftime(last.as_of)] \in db.daily_stats
    /\ [date |-> strftime(last.as_of + 1)] \in db.daily_stats
    /\ last.future_dates = {strftime(last.as_of + 1)}

(* C14: a run of analyze_database (either script) or of check_uploaded_db, *)
(* whether it completes or raises, leaves every table row, every view      *)
(* definition and every schema_version entry, and the set of tables and    *)
(* indexes, as they were before the run                                    *)
C14_DiagnosticsReadOnly ==
    (last.op \in Diagnostics)
        => /\ \A t \in RowTables : Rows(db, t) = Rows(pre, t)
           /\ db.schema_version = pre.schema_version
           /\ Schema(db) = Schema(pre)
           /\ last.touched = {}

\* a diagnostics script has run to its end on a database that holds rows, views and a version
C14_Witness ==
    /\ last.op \in Diagnostics
    /\ ~last.error
    /\ db.app_usage_stats # {}
    /\ db.daily_stats # {}
    /\ db.schema_version # {}
    /\ db.views = CurrentViews

(* C15: on every database, also one where daily_stats, hourly_stats,       *)
(* key_stats or schema_version is missing or empty, analyze_database runs  *)
(* to its end without raising and reports the missing table as a finding   *)
C15_FindingsNotExceptions ==
    /\ (last.op \in {"analyze_database", "analyze_debug_db"}) => ~last.error
    /\ (last.op = "analyze_database")
          => /\ ("schema_version" \notin db.tables)
                  => "Schema version table not found or empty" \in last.reported
             /\ ("key_stats" \notin db.tables)
                  => "key_stats table not found or error reading it" \in last.reported

-----------------------------------------------------------------------------
(* C16: apply_migration_v4 started on a database without a schema_version  *)
(* table reads version 0, runs to its end without raising, and leaves      *)
(* version 4 in schema_version, the table app_usage_stats and all four     *)
(* views                                                                   *)
C16_MigrationWithoutLedger ==
    (last.op = "apply_migration_v4" /\ "schema_version" \notin pre.tables /\ ~last.injected)
        => /\ last.current_version = 0
           /\ ~last.error
           /\ 4 \in Versions(db)
           /\ "app_usage_stats" \in db.tables
           /\ \A v \in ViewNames : db.views[v] # NoView

(* C17: init_database run again on a database it has initialised, in the   *)
(* same hour, a later hour or on a later day, leaves every row of          *)
(* app_usage_stats as it was and adds none; apply_migration_v4, when it    *)
(* applies, leaves every row that was there with its seconds_used          *)
C17_RerunKeepsRows ==
    /\ (last.op = "init_database" /\ last.repeat /\ ~last.error)
          => db.app_usage_stats = pre.app_usage_stats
    /\ (last.op = "apply_migration_v4" /\ last.applied /\ ~last.error)
          => pre.app_usage_stats \subseteq db.app_usage_stats

-----------------------------------------------------------------------------
(* The four windows side by side                                           *)

\* the rows view v holds in the current state, on the current local date
ViewNow(v) == ViewRows(db.views[v], db.app_usage_stats, clock.day)

Listed(v) == {e.app_name : e \in ViewNow(v)}

TotalIn(v, a) == (CHOOSE e \in ViewNow(v) : e.app_name = a).total_seconds

\* each window with the next wider one
Widening ==
    { <<"app_usage_daily", "app_usage_weekly">>,
      <<"app_usage_weekly", "app_usage_monthly">>,
      <<"app_usage_monthly", "app_usage_lifetime">> }

\* the views have the definitions the scripts give them and no row is negative
WindowsDefined ==
    /\ "app_usage_stats" \in db.tables
    /\ db.views = CurrentViews
    /\ \A r \in db.app_usage_stats : r.seconds_used >= 0

(* C18: in every state whose rows have non-negative seconds_used, every    *)
(* app listed in the Today, Weekly or Monthly view is listed in the next   *)
(* wider view with a total at least as large: Today <= Weekly <= Monthly   *)
(* <= Lifetime                                                             *)
C18_WindowsNested ==
    WindowsDefined
        => \A p \in Widening :
              /\ Listed(p[1]) \subseteq Listed(p[2])
              /\ \A a \in Listed(p[1]) : TotalIn(p[1], a) <= TotalIn(p[2], a)

\* an app whose four totals all differ, and an app that only a wider window lists
C18_Witness ==
    /\ WindowsDefined
    /\ \E a \in Listed("app_usage_daily") :
          /\ TotalIn("app_usage_daily", a) < TotalIn("app_usage_weekly", a)
          /\ TotalIn("app_usage_weekly", a) < TotalIn("app_usage_monthly", a)
          /\ TotalIn("app_usage_monthly", a) < TotalIn("app_usage_lifetime", a)
    /\ \E p \in Widening : Listed(p[1]) # Listed(p[2])

====
